---- MODULE Spec2Model ----
(***************************************************************************)
(* Sales-forecasting assistant: the query pipeline and the session of      *)
(* app/main.py and app/ui/chat_interface.py, the conversation files of     *)
(* app/utils/conversation_storage.py, the Inventory Lookup and Inventory   *)
(* Responder of app/api/openai_client.py and                               *)
(* app/data/inventory/inventory_service.py, the Market Augmenter of        *)
(* app/api/assistant_client.py, the sales digest of                        *)
(* app/data/sales_data_service.py and main.format_augmented_response.      *)
(*                                                                         *)
(* The specifications share the variables:                                 *)
(*   Spec        the runs of the Streamlit script main() in one session;   *)
(*   SpecInv     process_inventory_query called directly;                  *)
(*   SpecAug     augment_sales_response called directly;                   *)
(*   SpecSummary generate_sales_data_summary called on a frame;            *)
(*   SpecFormat  format_augmented_response called on a response;           *)
(*   SpecStorage the three functions of ConversationStorage called         *)
(*               directly.                                                 *)
(* Python strings that the code builds or compares piecewise are modelled  *)
(* as sequences (the empty string is << >>); opaque texts are TLA+ strings.*)
(***************************************************************************)
EXTENDS Integers, Sequences, FiniteSets, TLC

VARIABLES host, view, data, catalog, inv, aug, run, main, session, storage

vars == <<host, view, data, catalog, inv, aug, run, main, session, storage>>

---------------------------------------------------------------------------
(* Bounds of the model *)
MaxCatalog == 2    \* items in the inventory catalog
MaxProducts == 1   \* products passed to a direct process_inventory_query call
MaxOutput == 2     \* output items of the first LLM round
MaxCalls == 2      \* direct calls per behaviour of SpecInv, SpecAug, SpecFormat
MaxQueries == 2    \* user queries per behaviour of Spec
MaxLatency == 1    \* time units one runs.retrieve call may take
MaxRows == 3       \* rows of the sales dataset
MaxEntries == 2    \* entries of one insight list
MaxMessages == 2   \* messages of a chat history passed to save_conversation

---------------------------------------------------------------------------
(* Values *)
Names == {"Energy Bars", "energy bars", "Protein Bars"}
None == [type |-> "NoneType"]
EmptyStr == << >>

\* a raised exception: its class, the statement that raised it, its message
Exc(cls, at, msg) == [type |-> "exception", cls |-> cls, at |-> at, msg |-> msg]

\* getattr on an object of the model: a record has the attributes it carries
HasAttr(obj, attr) == attr \in DOMAIN obj

\* An item of stock-data.json's "inventory_items": the record the catalog
\* holds has more fields than the InventoryItem model keeps.
CatalogItem(i, n) ==
  [id |-> <<"INV", i>>, name |-> n, quantity_in_stock |-> 100 * i,
   warehouse |-> "W1"]

RECURSIVE CatalogsOfLen(_)
CatalogsOfLen(k) ==
  IF k = 0 THEN {<< >>}
  ELSE {Append(c, CatalogItem(k, n)) : c \in CatalogsOfLen(k - 1), n \in Names}

Catalogs == UNION {CatalogsOfLen(k) : k \in 0..MaxCatalog}

---------------------------------------------------------------------------
(* sales_data_service.generate_sales_data_summary *)

ProductNames == {"Energy Bars", "Nut & Seed Bars"}
UnitValues == {0, 5, 7}
Months == {1, 4}

\* a row of the preprocessed frame (data_loader.preprocess_sales_data): the
\* dates are months of one year, Sales_Units are whole numbers
SalesRow(p, u, m) ==
  [Date |-> m, Product |-> p, Sales_Units |-> u, Revenue |-> 3 * u + 1,
   Year |-> 2024, Month |-> m, Quarter |-> ((m - 1) \div 3) + 1,
   Price_Per_Unit |-> <<3 * u + 1, u>>]

RECURSIVE DatasetsOfLen(_)
DatasetsOfLen(k) ==
  IF k = 0 THEN {<< >>}
  ELSE {Append(d, SalesRow(p, u, m)) :
          d \in DatasetsOfLen(k - 1), p \in ProductNames, u \in UnitValues,
          m \in Months}

\* the frames of up to n rows
Datasets(n) == UNION {DatasetsOfLen(k) : k \in 0..n}

Column(rows, col) == [k \in 1..Len(rows) |-> rows[k][col]]

\* Series.unique().tolist(): the values in order of first appearance
RECURSIVE Unique(_)
Unique(seq) ==
  IF seq = << >> THEN << >>
  ELSE LET u == Unique(SubSeq(seq, 1, Len(seq) - 1))
           last == seq[Len(seq)]
       IN IF \E k \in 1..Len(u) : u[k] = last THEN u ELSE Append(u, last)

\* Series.sum()
RECURSIVE SeriesSum(_)
SeriesSum(seq) == IF seq = << >> THEN 0 ELSE seq[1] + SeriesSum(Tail(seq))

\* Series.mean(), kept as the pair (sum, count)
SeriesMean(seq) == <<SeriesSum(seq), Len(seq)>>

\* line 31 without the row filter
ProductDataAllRows(rows, product) == rows

\* line 31: sales_data[sales_data['Product'] == product]
ProductData(rows, product) == SelectSeq(rows, LAMBDA r : r.Product = product)

\* lines 32-38
ProductStatistics(product_data) ==
  [total_sales_units |-> SeriesSum(Column(product_data, "Sales_Units")),
   total_revenue |-> SeriesSum(Column(product_data, "Revenue")),
   average_sales_units_per_week |-> SeriesMean(Column(product_data, "Sales_Units")),
   average_revenue_per_week |-> SeriesMean(Column(product_data, "Revenue")),
   average_price_per_unit |-> Column(product_data, "Price_Per_Unit")]

\* lines 41-53 and 56-68: per value of the period column that occurs, per
\* product that occurs in it, the sum of Sales_Units (one year of data)
Trends(rows, col) ==
  [v \in {rows[k][col] : k \in 1..Len(rows)} |->
     [p \in {rows[k].Product : k \in {j \in 1..Len(rows) : rows[j][col] = v}} |->
        SeriesSum(Column(SelectSeq(rows, LAMBDA r : r[col] = v /\ r.Product = p),
                         "Sales_Units"))]]

SetMin(S) == CHOOSE x \in S : \A y \in S : x <= y
SetMax(S) == CHOOSE x \in S : \A y \in S : x >= y

\* lines 19-73, for a frame with at least one row
generate_sales_data_summary(rows) ==
  LET products == Unique(Column(rows, "Product"))
      dates == {rows[k].Date : k \in 1..Len(rows)}
  IN [data_period |-> [start_date |-> SetMin(dates), end_date |-> SetMax(dates)],
      products |-> products,
      total_records |-> Len(rows),
      product_statistics |->
        [p \in {products[k] : k \in 1..Len(products)} |->
           ProductStatistics(ProductData(rows, p))],
      monthly_trends |-> Trends(rows, "Month"),
      quarterly_trends |-> Trends(rows, "Quarter")]

\* the frame handed to generate_sales_data_summary and what the call gave
DataIdle == [sales_data |-> << >>, summary |-> None, error |-> None, calls |-> 0]

\* a call of generate_sales_data_summary: on an empty frame the minimum of
\* the dates is NaT, strftime raises, and lines 75-77 re-raise
SummaryCall ==
  /\ data.calls = 0
  /\ data' = IF data.sales_data = << >>
             THEN [data EXCEPT !.calls = 1,
                     !.error = Exc("ValueError", "min().strftime", "NaT")]
             ELSE [data EXCEPT !.calls = 1,
                     !.summary = generate_sales_data_summary(data.sales_data)]
  /\ UNCHANGED <<host, view, catalog, inv, aug, run, main, session, storage>>

---------------------------------------------------------------------------
(* inventory_service.get_inventory *)

\* the name test of the loop, line 35
NameMatchesFolded(item_name, product_name) ==
  \/ item_name = product_name
  \/ {item_name, product_name} = {"Energy Bars", "energy bars"}

NameMatches(item_name, product_name) == item_name = product_name

\* InventoryItem(id=..., name=..., quantity_in_stock=...), lines 37-41
InventoryItem(item) ==
  [type |-> "InventoryItem", id |-> item.id, name |-> item.name,
   quantity_in_stock |-> item.quantity_in_stock]

\* the for loop of lines 34-45, scanning from position i
RECURSIVE ScanInventory(_, _, _)
ScanInventory(items, product_name, i) ==
  IF i > Len(items) THEN None
  ELSE IF NameMatches(items[i].name, product_name) THEN InventoryItem(items[i])
  ELSE ScanInventory(items, product_name, i + 1)

get_inventory(items, product_name) == ScanInventory(items, product_name, 1)

---------------------------------------------------------------------------
(* OpenAIClient.process_inventory_query *)

InvIdle ==
  [pc |-> "idle", caller |-> "none", products |-> << >>, messages |-> << >>,
   output |-> << >>, i |-> 0, rounds |-> 0, lookups |-> << >>,
   completion_2 |-> None, result |-> None, error |-> None, calls |-> 0]

\* items the first round may put in inventory_completion.output: a function
\* call of the one declared tool, or a text message (which has no "name")
FunctionCall(n, k) ==
  [type |-> "function_call", name |-> "get_inventory",
   arguments |-> [product_name |-> n], call_id |-> <<"call", k>>]
OutputMessage == [type |-> "message", text |-> "direct text"]

RECURSIVE OutputsOfLen(_)
OutputsOfLen(k) ==
  IF k = 0 THEN {<< >>}
  ELSE {Append(o, it) : o \in OutputsOfLen(k - 1),
                        it \in {FunctionCall(n, k) : n \in Names} \cup {OutputMessage}}

Round1Outputs == UNION {OutputsOfLen(k) : k \in 1..MaxOutput}

\* inventory_completion.output_text: the texts of the message items
RECURSIVE output_text(_)
output_text(output) ==
  IF output = << >> THEN EmptyStr
  ELSE IF output[1].type = "message"
       THEN <<output[1].text>> \o output_text(Tail(output))
       ELSE output_text(Tail(output))

\* json.dumps(inventory.model_dump()), line 211
JsonDumps(item) ==
  <<"{", "id", item.id, "name", item.name,
    "quantity_in_stock", item.quantity_in_stock, "}">>

\* line 211 with a stock record standing in for a missing one
ToolOutputDefaultRecord(inventory) ==
  IF inventory # None THEN JsonDumps(inventory)
  ELSE JsonDumps([id |-> <<"INV", 1>>, name |-> "Energy Bars",
                  quantity_in_stock |-> 100])

\* line 211: the payload of the function_call_output message
ToolOutput(inventory) ==
  IF inventory # None THEN JsonDumps(inventory) ELSE EmptyStr

\* lines 167-176
InitialMessages(products) ==
  << [role |-> "system", content |-> "inventory assistant"],
     [role |-> "user", content |-> <<"What is the inventory for", products>>] >>

\* what the second round may answer: text that validates as InventoryResponse
\* (any source, also one no lookup returned) or text that does not
Round2Texts ==
  {[valid |-> TRUE, answer |-> "answer", source |-> s] :
     s \in {EmptyStr} \cup {<<"INV", k>> : k \in 1..MaxCatalog}}
  \cup {[valid |-> FALSE]}

\* line 230 with a stand-in answer for a text that does not validate
InventoryResponseOrDefault(t) ==
  IF t.valid
  THEN [type |-> "InventoryResponse", answer |-> t.answer, source |-> t.source]
  ELSE [type |-> "InventoryResponse", answer |-> "no inventory information",
        source |-> EmptyStr]

\* line 230: InventoryResponse.model_validate(from_json(output_text)), which
\* gives the model instance or raises
InventoryResponseOf(t) ==
  IF t.valid
  THEN [type |-> "InventoryResponse", answer |-> t.answer, source |-> t.source]
  ELSE Exc("ValueError", "model_validate", "json")

\* lines 164-176: entry of the function
InvStart(products, caller) ==
  inv' = [InvIdle EXCEPT !.pc = "round1", !.caller = caller,
                         !.products = products,
                         !.messages = InitialMessages(products),
                         !.calls = inv.calls + 1]

\* a direct call of process_inventory_query (SpecInv)
InvCallDirect ==
  /\ inv.pc \in {"idle", "returned", "raised"}
  /\ inv.calls < MaxCalls
  /\ \E n \in 1..MaxProducts : \E products \in [1..n -> Names] :
       InvStart(products, "direct")
  /\ UNCHANGED <<host, view, data, catalog, aug, run, main, session, storage>>

\* lines 179-193: the first responses.create and the assistant message
InvRound1 ==
  /\ inv.pc = "round1"
  /\ \/ inv' = [inv EXCEPT !.pc = "raised", !.rounds = @ + 1,
                           !.error = Exc("APIError", "responses.create 1", "api")]
     \/ \E o \in Round1Outputs :
          inv' = [inv EXCEPT !.pc = "tools", !.rounds = @ + 1, !.output = o,
                             !.i = 1,
                             !.messages = Append(@, [role |-> "assistant",
                                                     content |-> output_text(o)])]
  /\ UNCHANGED <<host, view, data, catalog, aug, run, main, session, storage>>

\* lines 196-213: one iteration of the loop over inventory_completion.output
InvToolStep ==
  /\ inv.pc = "tools"
  /\ inv.i <= Len(inv.output)
  /\ LET tool_call == inv.output[inv.i] IN
       IF ~HasAttr(tool_call, "name")
       THEN inv' = [inv EXCEPT !.pc = "raised",
                               !.error = Exc("AttributeError", "tool_call.name", "name")]
       ELSE IF tool_call.name = "get_inventory"
       THEN LET product_name == tool_call.arguments.product_name
                inventory == get_inventory(catalog, product_name)
            IN inv' = [inv EXCEPT
                 !.i = @ + 1,
                 !.lookups = Append(@, [product_name |-> product_name,
                                        result |-> inventory]),
                 !.messages = @ \o << tool_call,
                                      [type |-> "function_call_output",
                                       call_id |-> tool_call.call_id,
                                       output |-> ToolOutput(inventory)] >>]
       ELSE inv' = [inv EXCEPT !.i = @ + 1]
  /\ UNCHANGED <<host, view, data, catalog, aug, run, main, session, storage>>

\* lines 216-231: the second responses.create and the validation of its text
InvRound2 ==
  /\ inv.pc = "tools"
  /\ inv.i > Len(inv.output)
  /\ \/ inv' = [inv EXCEPT !.pc = "raised", !.rounds = @ + 1,
                           !.error = Exc("APIError", "responses.create 2", "api")]
     \/ \E t \in Round2Texts :
          LET v == InventoryResponseOf(t) IN
            IF v.type = "exception"
            THEN inv' = [inv EXCEPT !.pc = "raised", !.rounds = @ + 1,
                                    !.completion_2 = t, !.error = v]
            ELSE inv' = [inv EXCEPT !.pc = "returned", !.rounds = @ + 1,
                                    !.completion_2 = t, !.result = v]
  /\ UNCHANGED <<host, view, data, catalog, aug, run, main, session, storage>>

InvActions == InvRound1 \/ InvToolStep \/ InvRound2

---------------------------------------------------------------------------
(* AssistantClient.augment_sales_response and _wait_for_run *)

max_wait_seconds == 120
poll_interval == 1

NonTerminal == {"queued", "in_progress", "requires_action"}
FailStatusesShort == {"failed", "cancelled"}
\* line 173: the statuses that end the wait with an error
FailStatuses == {"failed", "cancelled", "expired"}
RunStatuses == NonTerminal \cup FailStatuses \cup {"completed"}

\* the remote assistant service: threads created so far, the status of the
\* run in progress, and whether the run completed while less than
\* max_wait_seconds had passed since the client started waiting
RunIdle == [threads |-> 0, status |-> "none", completed_in_time |-> FALSE]

AugIdle ==
  [pc |-> "idle", arg |-> None, product |-> "", time_period |-> "",
   thread |-> 0, ops |-> << >>, elapsed |-> 0, last_status |-> "none",
   wait |-> "none", response |-> None, parse_failed |-> FALSE,
   market_insights |-> None, result |-> None, error |-> None, calls |-> 0]

\* objects a caller may pass as sales_response: a SalesResponse (the declared
\* parameter type) whose data is a dict or None, or the SalesAnalysisResponse
\* that main passes, which has no data attribute
SalesResponseObj(d) ==
  [cls |-> "SalesResponse", query |-> "q", response_text |-> "historical answer",
   data |-> d]
SalesAnalysisResponseObj(ps, tp) ==
  [cls |-> "SalesAnalysisResponse", response_text |-> "historical answer",
   products |-> ps, time_period |-> tp]
DataDicts ==
  { [products |-> <<"Energy Bars">>, time_period |-> "next month"],
    [products |-> <<"Protein Bars", "Energy Bars">>, time_period |-> "unknown"],
    [time_period |-> "next month"] }
AugArgs ==
  {SalesResponseObj(d) : d \in DataDicts \cup {None}}
  \cup {SalesAnalysisResponseObj(<<"Energy Bars">>, "next month")}

\* dict.get(key, default)
DictGet(d, key, default) == IF key \in DOMAIN d THEN d[key] ELSE default

\* line 50
FirstProduct(products) == IF products # << >> THEN products[1] ELSE "unknown"

\* _create_message_content, lines 128-150
create_message_content(sales_response, product, time_period) ==
  <<"Product:", product, "Time Period:", time_period,
    "Initial Forecast:", sales_response.response_text, "Provide only the JSON object">>

\* the log of external operations keeps one entry for a row of polls
Log(ops, e) ==
  IF ops # << >> /\ ops[Len(ops)] = e THEN ops ELSE Append(ops, e)

\* a direct call of augment_sales_response (SpecAug)
AugCallDirect ==
  /\ aug.pc \in {"idle", "returned", "raised"}
  /\ aug.calls < MaxCalls
  /\ \E a \in AugArgs :
       aug' = [AugIdle EXCEPT !.pc = "entry", !.arg = a, !.calls = aug.calls + 1]
  /\ run' = [run EXCEPT !.status = "none", !.completed_in_time = FALSE]
  /\ UNCHANGED <<host, view, data, catalog, inv, main, session, storage>>

\* lines 44-52: products, time_period and product from sales_response.data
AugEntry ==
  /\ aug.pc = "entry"
  /\ IF ~HasAttr(aug.arg, "data")
     THEN aug' = [aug EXCEPT !.pc = "raised",
                   !.error = Exc("AttributeError", "sales_response.data", "data")]
     ELSE IF aug.arg.data = None
     THEN aug' = [aug EXCEPT !.pc = "raised",
                   !.error = Exc("AttributeError", "sales_response.data.get", "get")]
     ELSE aug' = [aug EXCEPT !.pc = "create_thread",
                   !.product = FirstProduct(DictGet(aug.arg.data, "products", << >>)),
                   !.time_period = DictGet(aug.arg.data, "time_period", "unknown")]
  /\ UNCHANGED <<host, view, data, catalog, inv, run, main, session, storage>>

\* line 55: client.beta.threads.create()
AugCreateThread ==
  /\ aug.pc = "create_thread"
  /\ \/ /\ aug' = [aug EXCEPT !.pc = "raised",
                     !.error = Exc("APIError", "threads.create", "api")]
        /\ UNCHANGED run
     \/ /\ run' = [run EXCEPT !.threads = @ + 1]
        /\ aug' = [aug EXCEPT !.pc = "create_message", !.thread = run.threads + 1,
                     !.ops = Log(@, [op |-> "create_thread", thread |-> run.threads + 1])]
  /\ UNCHANGED <<host, view, data, catalog, inv, main, session, storage>>

\* lines 58-66: threads.messages.create(thread_id, role="user", content)
AugCreateMessage ==
  /\ aug.pc = "create_message"
  /\ \/ aug' = [aug EXCEPT !.pc = "raised",
                  !.error = Exc("APIError", "messages.create", "api")]
     \/ aug' = [aug EXCEPT !.pc = "create_run",
                  !.ops = Log(@, [op |-> "create_message", thread |-> aug.thread,
                                  role |-> "user",
                                  content |-> create_message_content(
                                     aug.arg, aug.product, aug.time_period)])]
  /\ UNCHANGED <<host, view, data, catalog, inv, run, main, session, storage>>

\* lines 69-77 and 164: threads.runs.create, then _wait_for_run takes start_time
AugCreateRun ==
  /\ aug.pc = "create_run"
  /\ \/ /\ aug' = [aug EXCEPT !.pc = "raised",
                     !.error = Exc("APIError", "runs.create", "api")]
        /\ UNCHANGED run
     \/ /\ run' = [run EXCEPT !.status = "queued", !.completed_in_time = FALSE]
        /\ aug' = [aug EXCEPT !.pc = "loop", !.elapsed = 0,
                     !.ops = Log(@, [op |-> "create_run", thread |-> aug.thread])]
  /\ UNCHANGED <<host, view, data, catalog, inv, main, session, storage>>

\* the assistant service works on the run while the client waits
RunAdvance ==
  /\ aug.pc \in {"loop", "retrieve", "sleep"}
  /\ run.status \in NonTerminal
  /\ \E st \in RunStatuses \ {run.status} :
       run' = [run EXCEPT !.status = st,
                 !.completed_in_time =
                    st = "completed" /\ aug.elapsed < max_wait_seconds]
  /\ UNCHANGED <<host, view, data, catalog, inv, aug, main, session, storage>>

\* line 165: the test of the while loop
LoopGuardEarly(elapsed) == elapsed + poll_interval < max_wait_seconds
LoopGuard(elapsed) == elapsed < max_wait_seconds

\* lines 165 and 180-182: enter the loop body, or time out
AugLoopTest ==
  /\ aug.pc = "loop"
  /\ IF LoopGuard(aug.elapsed)
     THEN aug' = [aug EXCEPT !.pc = "retrieve"]
     ELSE aug' = [aug EXCEPT !.pc = "raised", !.wait = "timeout",
                    !.error = Exc("Exception", "_wait_for_run",
                                  <<"Assistant run timed out">>)]
  /\ UNCHANGED <<host, view, data, catalog, inv, run, main, session, storage>>

\* lines 171-175: what the loop does with the status a poll observed
StatusVerdictLenient(status) ==
  IF status = "completed" THEN "returned"
  ELSE IF status \in FailStatusesShort THEN "run_failed"
  ELSE "keep_polling"
StatusVerdictStrict(status) ==
  IF status = "completed" THEN "returned"
  ELSE IF status \in {"queued", "in_progress"} THEN "keep_polling"
  ELSE "run_failed"
StatusVerdict(status) ==
  IF status = "completed" THEN "returned"
  ELSE IF status \in FailStatuses THEN "run_failed"
  ELSE "keep_polling"

\* lines 166-175: one runs.retrieve, taking d time units, and the status test
AugRetrieve ==
  /\ aug.pc = "retrieve"
  /\ \E d \in 0..MaxLatency :
       \/ aug' = [aug EXCEPT !.pc = "raised", !.wait = "api_error",
                    !.elapsed = @ + d,
                    !.ops = Log(@, [op |-> "retrieve", thread |-> aug.thread]),
                    !.error = Exc("APIError", "runs.retrieve", "api")]
       \/ LET verdict == StatusVerdict(run.status)
              logged == Log(aug.ops, [op |-> "retrieve", thread |-> aug.thread])
          IN aug' = [aug EXCEPT
               !.elapsed = @ + d, !.last_status = run.status, !.ops = logged,
               !.pc = CASE verdict = "returned" -> "list"
                        [] verdict = "run_failed" -> "raised"
                        [] OTHER -> "sleep",
               !.wait = IF verdict = "keep_polling" THEN @ ELSE verdict,
               !.error = IF verdict = "run_failed"
                         THEN Exc("Exception", "_wait_for_run",
                                  <<"Assistant run failed with status:", run.status>>)
                         ELSE @]
  /\ UNCHANGED <<host, view, data, catalog, inv, run, main, session, storage>>

\* line 178: time.sleep(1)
AugSleep ==
  /\ aug.pc = "sleep"
  /\ aug' = [aug EXCEPT !.pc = "loop", !.elapsed = @ + poll_interval]
  /\ UNCHANGED <<host, view, data, catalog, inv, run, main, session, storage>>

\* the latest assistant message: leading prose or none, a ```json fence that
\* is closed, left open or absent, and the payload text
AssistantResponses ==
  [prefix : {"", "prose"}, fence : {"none", "closed", "open"},
   payload : {"insights", "wrong_shape", "array", "garbage"}]

\* lines 95-102: the text handed to json.loads; "whole" is the full response
JsonInput(r) == IF r.fence = "closed" THEN "payload" ELSE "whole"

\* json.loads on that text: the full response is JSON only when it is the
\* bare payload; "garbage" is no JSON
JsonLoads(r) ==
  IF (JsonInput(r) = "whole" /\ (r.prefix # "" \/ r.fence # "none"))
     \/ r.payload = "garbage"
  THEN [ok |-> FALSE, exc |-> "JSONDecodeError"]
  ELSE [ok |-> TRUE, value |-> r.payload]

\* MarketInsights(**market_insights_dict), line 105: a JSON array is no
\* mapping (TypeError), an object without the three lists does not validate
MarketInsightsOf(value) ==
  IF value = "array" THEN [ok |-> FALSE, exc |-> "TypeError"]
  ELSE IF value = "wrong_shape" THEN [ok |-> FALSE, exc |-> "ValidationError"]
  ELSE [ok |-> TRUE,
        value |-> [cls |-> "MarketInsights", origin |-> "parsed", data |-> value]]

\* lines 109-113
PlaceholderInsights ==
  [cls |-> "MarketInsights", origin |-> "placeholder", data |-> "Could not parse"]

\* line 106: except (json.JSONDecodeError, ValueError); pydantic's
\* ValidationError is a ValueError
CaughtByParseHandler == {"JSONDecodeError", "ValueError", "ValidationError"}

\* lines 93-113: the outcome of the inner try statement
ParseOutcome(r) ==
  LET loaded == JsonLoads(r)
      built == IF loaded.ok THEN MarketInsightsOf(loaded.value) ELSE loaded
  IN IF built.ok THEN [raised |-> FALSE, failed |-> FALSE, insights |-> built.value]
     ELSE IF built.exc \in CaughtByParseHandler
          THEN [raised |-> FALSE, failed |-> TRUE, insights |-> PlaceholderInsights]
          ELSE [raised |-> TRUE, failed |-> TRUE, exc |-> built.exc]

\* lines 80-87: threads.messages.list(thread_id, order="desc", limit=1);
\* the clock of _wait_for_run is no longer read
AugListMessages ==
  /\ aug.pc = "list"
  /\ \/ aug' = [aug EXCEPT !.pc = "raised", !.elapsed = 0,
                  !.error = Exc("APIError", "messages.list", "api")]
     \/ \E r \in AssistantResponses :
          aug' = [aug EXCEPT !.pc = "parse", !.response = r, !.elapsed = 0,
                    !.ops = Log(@, [op |-> "list_messages", thread |-> aug.thread,
                                    order |-> "desc", limit |-> 1])]
  /\ UNCHANGED <<host, view, data, catalog, inv, run, main, session, storage>>

\* lines 93-113: parse the assistant's message
AugParse ==
  /\ aug.pc = "parse"
  /\ LET out == ParseOutcome(aug.response) IN
       IF out.raised
       THEN aug' = [aug EXCEPT !.pc = "raised", !.parse_failed = TRUE,
                      !.error = Exc(out.exc, "MarketInsights(**dict)", "parse")]
       ELSE aug' = [aug EXCEPT !.pc = "construct", !.parse_failed = out.failed,
                      !.market_insights = out.insights]
  /\ UNCHANGED <<host, view, data, catalog, inv, run, main, session, storage>>

\* schema.py lines 118-124: AugmentedResponse validates initial_response as a
\* SalesAnalysisResponse and market_insights as a NewMarketInsights; an
\* instance of another model class is rejected
AugmentedResponseValidates(initial_response, market_insights) ==
  /\ initial_response.cls = "SalesAnalysisResponse"
  /\ market_insights.cls = "NewMarketInsights"

\* lines 116-122: build and return the AugmentedResponse. The argument that
\* got past line 46 is a SalesResponse and the insights are a MarketInsights,
\* so the validation fails for every call that reaches this line.
AugConstruct ==
  /\ aug.pc = "construct"
  /\ IF AugmentedResponseValidates(aug.arg, aug.market_insights)
     THEN aug' = [aug EXCEPT !.pc = "returned",
                    !.result = [cls |-> "AugmentedResponse",
                                initial_response |-> aug.arg,
                                market_insights |-> aug.market_insights]]
     ELSE aug' = [aug EXCEPT !.pc = "raised",
                    !.error = Exc("ValidationError", "AugmentedResponse", "model_type")]
  /\ UNCHANGED <<host, view, data, catalog, inv, run, main, session, storage>>

AugActions ==
  \/ AugEntry \/ AugCreateThread \/ AugCreateMessage \/ AugCreateRun
  \/ RunAdvance \/ AugLoopTest \/ AugRetrieve \/ AugSleep
  \/ AugListMessages \/ AugParse \/ AugConstruct

---------------------------------------------------------------------------
(* main.py: one run of the Streamlit script, and process_sales_query *)

Inputs == {"sales of Energy Bars next month?", "top sellers?"}

\* what the structured-output call of process_sales_query may parse
Product(n) == [name |-> n]
ExtractedProducts ==
  { << >>, <<Product("Energy Bars")>>,
    <<Product("Protein Bars"), Product("Energy Bars")>> }
\* time_period is a str field without further constraint (schema.py line
\* 47), and the system message asks for "the time period mentioned in the
\* query" without naming a value for a query that mentions none
RecognizedPeriods == {"next month"}
TimePeriods == RecognizedPeriods \cup {"unknown", ""}
SalesAnalysisResponses ==
  {[cls |-> "SalesAnalysisResponse", response_text |-> "historical answer",
    products |-> ps, time_period |-> tp] :
     ps \in ExtractedProducts, tp \in TimePeriods}

\* a return statement that gives the extraction result alone
SalesResponseOnly(a, b) == a

\* the value of "return sales_response, inventory_response", line 87
TupleOf(a, b) == [cls |-> "tuple", items |-> <<a, b>>]

\* a username is the sequence of its pieces, so that the text ".json" and
\* the path separator can occur in it; the empty username is EmptyStr
Users == {<<"alice">>, <<"alice", ".json">>, <<"a", "/", "b">>}
\* the process environment, the conversations directory and the clock of the
\* machine the script runs on
Envs == [OPENAI_API_KEY : BOOLEAN, OPENAI_ASSISTANT_ID : BOOLEAN]
FullEnv == [OPENAI_API_KEY |-> TRUE, OPENAI_ASSISTANT_ID |-> TRUE]
\* app/data/sales_data.csv: a file with rows, a file whose rows are all
\* dropped by the preprocessing, or no file
CsvStates == {"rows", "no rows", "missing"}
ExampleFrame ==
  <<SalesRow("Energy Bars", 5, 1), SalesRow("Nut & Seed Bars", 7, 4)>>
\* conversation_storage.py lines 67 and 93: f"{username}.json"
FileName(username) == Append(username, ".json")
FileNames == {FileName(u) : u \in Users}
\* str.endswith('.json') and str.replace('.json', '')
EndsWithJson(filename) == filename # << >> /\ filename[Len(filename)] = ".json"
RemoveJson(filename) == SelectSeq(filename, LAMBDA piece : piece # ".json")
\* open(filepath, 'w'): the directory of the file has to exist, and the
\* conversations directory has no subdirectory
CanOpenForWriting(filename) == \A k \in 1..Len(filename) : filename[k] # "/"
\* files: the conversations directory, by file name
HostInit(env, csv) ==
  [env |-> env, csv |-> csv, files |-> [f \in FileNames |-> None], clock |-> 1]

\* st.session_state; a ChatHistory is the sequence of its messages
\* loads, summaries and the two constructed fields count the successful
\* load_sales_data calls, the generate_sales_data_summary calls and the
\* successful constructions of each client; rendered says that a run has
\* built the interface
SessionInit ==
  [sales_data |-> "absent", sales_data_summary |-> None, loads |-> 0,
   summaries |-> 0, openai_client |-> FALSE, openai_constructed |-> 0,
   assistant_client |-> FALSE, assistant_constructed |-> 0,
   rendered |-> FALSE, username |-> EmptyStr, chat_history |-> << >>]

\* how the structured-output call of lines 62-76 can fail: the API call
\* raises, the content does not validate against SalesAnalysisResponse (the
\* SDK raises), or the model refuses and message.parsed is None
ExtractorFailures == {"api_error", "validation_error", "refusal"}
ExtractError(c) ==
  CASE c = "api_error" -> Exc("APIError", "chat.completions.parse", "api")
    [] c = "validation_error" ->
         Exc("ValidationError", "chat.completions.parse", "response_format")
    [] c = "refusal" ->
         Exc("AttributeError", "sales_response.response_text", "parsed is None")

MainIdle ==
  [pc |-> "idle", has_input |-> FALSE, user_input |-> None, completion |-> "none",
   sales_response |-> None, ret |-> None,
   error |-> None, extractions |-> 0, inv_calls |-> 0, history_before |-> 0,
   queries |-> 0]

\* schema.py lines 49-55
ChatMessage(role, content, timestamp) ==
  [role |-> role, content |-> content, timestamp |-> timestamp]

\* a function that leaves the chat history as it is
add_no_message(chat_history, content, now) == chat_history

\* chat_interface.py lines 124-141: the chat history after add_user_message
add_user_message(chat_history, content, now) ==
  Append(chat_history, ChatMessage("user", content, now))

\* datetime.isoformat() and the parsing of an ISO string by the datetime field
IsoFormat(t) == <<"iso", t>>
ParseIso(text) == text[2]

\* os.listdir of the conversations directory
ListDir(files) == {f \in DOMAIN files : files[f] # None}

\* conversation_storage.py lines 22-38
get_available_users(files) ==
  {RemoveJson(filename) : filename \in {f \in ListDir(files) : EndsWithJson(f)}}

\* conversation_storage.py lines 40-76: the value returned
save_conversation_returns(username) ==
  username # EmptyStr /\ CanOpenForWriting(FileName(username))

\* conversation_storage.py lines 40-76: the files after the call
save_conversation(files, username, chat_history) ==
  IF ~save_conversation_returns(username) THEN files
  ELSE [files EXCEPT ![FileName(username)] =
          [messages |-> [k \in 1..Len(chat_history) |->
             [role |-> chat_history[k].role, content |-> chat_history[k].content,
              timestamp |-> IsoFormat(chat_history[k].timestamp)]]]]

\* conversation_storage.py lines 78-115
load_conversation(files, username) ==
  IF username = EmptyStr THEN << >>
  ELSE IF FileName(username) \in ListDir(files)
  THEN LET history_dict == files[FileName(username)]
       IN [k \in 1..Len(history_dict.messages) |->
             ChatMessage(history_dict.messages[k].role,
                         history_dict.messages[k].content,
                         ParseIso(history_dict.messages[k].timestamp))]
  ELSE << >>

\* the ValueError of a client constructor
ConfigError(variable, at) == Exc("ValueError", at, variable)

\* openai_client.py lines 32-37
OpenAIClientInit(env) ==
  IF ~env.OPENAI_API_KEY THEN ConfigError("OPENAI_API_KEY", "OpenAIClient()")
  ELSE None

\* assistant_client.py lines 20-25 only
AssistantClientInitKeyOnly(env) ==
  IF ~env.OPENAI_API_KEY THEN ConfigError("OPENAI_API_KEY", "AssistantClient()")
  ELSE None

\* assistant_client.py lines 20-29
AssistantClientInit(env) ==
  IF ~env.OPENAI_API_KEY THEN ConfigError("OPENAI_API_KEY", "AssistantClient()")
  ELSE IF ~env.OPENAI_ASSISTANT_ID
  THEN ConfigError("OPENAI_ASSISTANT_ID", "AssistantClient()")
  ELSE None

\* data_loader.py lines 18-44: the preprocessed frame, or the error raised
load_sales_data(csv) ==
  IF csv = "missing"
  THEN [frame |-> None,
        error |-> Exc("FileNotFoundError", "load_sales_data", "sales_data.csv")]
  ELSE [frame |-> IF csv = "rows" THEN ExampleFrame ELSE << >>, error |-> None]

\* main.py lines 104-114: load_sales_data, then generate_sales_data_summary
\* on the stored frame, which raises on a frame without rows; gives the
\* session and the error raised
LoadAndSummarize(s, csv) ==
  LET loaded == load_sales_data(csv)
      s1 == [s EXCEPT !.sales_data = "loaded", !.loads = @ + 1,
                      !.summaries = @ + 1]
  IN IF loaded.error # None THEN [session |-> s, error |-> loaded.error]
     ELSE IF loaded.frame = << >>
     THEN [session |-> s1,
           error |-> Exc("ValueError", "generate_sales_data_summary", "NaT")]
     ELSE [session |-> [s1 EXCEPT !.sales_data_summary =
                          generate_sales_data_summary(loaded.frame)],
           error |-> None]

\* main.py lines 102-114 without the test of line 103
load_sales_data_and_summary_every_run(s, csv) == LoadAndSummarize(s, csv)

\* main.py lines 102-114: the data is loaded and summarized when the session
\* does not hold it yet
load_sales_data_and_summary(s, csv) ==
  IF s.sales_data # "absent" THEN [session |-> s, error |-> None]
  ELSE LoadAndSummarize(s, csv)

\* main.py lines 90-100: each client is constructed and stored when the
\* session does not hold it yet; gives the session and the error raised
initialize_clients(s, env) ==
  LET e1 == IF s.openai_client THEN None ELSE OpenAIClientInit(env)
      s1 == IF e1 = None /\ ~s.openai_client
            THEN [s EXCEPT !.openai_client = TRUE, !.openai_constructed = @ + 1]
            ELSE s
      e2 == IF s1.assistant_client THEN None ELSE AssistantClientInit(env)
  IN IF e1 # None THEN [session |-> s, error |-> e1]
     ELSE IF e2 # None THEN [session |-> s1, error |-> e2]
     ELSE IF s1.assistant_client THEN [session |-> s1, error |-> None]
     ELSE [session |-> [s1 EXCEPT !.assistant_client = TRUE,
                                  !.assistant_constructed = @ + 1],
           error |-> None]

\* main.py lines 31-34: the start of every run of the script
RunStart ==
  LET loaded == load_sales_data_and_summary(session, host.csv)
  IN IF loaded.error # None THEN loaded
     ELSE initialize_clients(loaded.session, host.env)

\* lines 86-88: the handler of main's try statement
MainExcept(e) == [main EXCEPT !.pc = "idle", !.error = e]

\* the locals of a new run of the script
NewRun == [MainIdle EXCEPT !.queries = main.queries]

\* main.py lines 29-34 and 86-88: a run of the script in which the data
\* cannot be loaded or summarized, or a client cannot be constructed, ends
\* in the handler before the interface is built
MainStartupFails ==
  /\ main.pc = "idle"
  /\ RunStart.error # None
  /\ session' = RunStart.session
  /\ main' = [NewRun EXCEPT !.error = RunStart.error]
  /\ UNCHANGED <<host, view, data, catalog, inv, aug, run, storage>>

\* main.py lines 31-40: a run of the script without chat input and without a
\* pressed button, the first run of a session for one
MainRender ==
  /\ main.pc = "idle"
  /\ RunStart.error = None
  /\ session' = [RunStart.session EXCEPT !.rendered = TRUE]
  /\ main' = NewRun
  /\ inv' = [InvIdle EXCEPT !.calls = inv.calls]
  /\ UNCHANGED <<host, view, data, catalog, aug, run, storage>>

\* chat_interface.py lines 54-73: the Login button with a username; the
\* conversation of a user who has a file replaces the chat history
MainLogin ==
  /\ main.pc = "idle"
  /\ session.rendered
  /\ RunStart.error = None
  /\ session.username = EmptyStr
  /\ \E new_username \in Users :
       session' = [RunStart.session EXCEPT
         !.username = new_username,
         !.chat_history =
           IF new_username \in get_available_users(host.files)
           THEN load_conversation(host.files, new_username) ELSE @]
  /\ main' = NewRun
  /\ inv' = [InvIdle EXCEPT !.calls = inv.calls]
  /\ UNCHANGED <<host, view, data, catalog, aug, run, storage>>

\* chat_interface.py lines 74-90: the Logout button; a non-empty chat history
\* is saved, then the username and the chat history are cleared
MainLogout ==
  /\ main.pc = "idle"
  /\ session.rendered
  /\ RunStart.error = None
  /\ session.username # EmptyStr
  /\ host' = [host EXCEPT !.files =
       IF Len(session.chat_history) > 0
       THEN save_conversation(@, session.username, session.chat_history) ELSE @]
  /\ session' = [RunStart.session EXCEPT !.username = EmptyStr, !.chat_history = << >>]
  /\ main' = NewRun
  /\ inv' = [InvIdle EXCEPT !.calls = inv.calls]
  /\ UNCHANGED <<view, data, catalog, aug, run, storage>>

\* main.py lines 31-42 and chat_interface.py lines 124-141: a run of the
\* script that receives a chat input; add_user_message appends it to the
\* chat history and saves nothing
MainAcceptInput ==
  /\ main.pc = "idle"
  /\ session.rendered
  /\ RunStart.error = None
  /\ main.queries < MaxQueries
  /\ \E user_input \in Inputs :
       /\ session' = [RunStart.session EXCEPT
            !.chat_history = add_user_message(@, user_input, host.clock)]
       /\ main' = [MainIdle EXCEPT !.pc = "extract", !.has_input = TRUE,
                     !.user_input = user_input,
                     !.history_before = Len(session.chat_history),
                     !.queries = main.queries + 1]
  /\ host' = [host EXCEPT !.clock = @ + 1]
  /\ inv' = [InvIdle EXCEPT !.calls = inv.calls]
  /\ UNCHANGED <<view, data, catalog, aug, run, storage>>

\* openai_client.py lines 56-87 up to the inventory branch: the structured
\* completion, its parsed message, and "if sales_response.products"
MainExtract ==
  /\ main.pc = "extract"
  /\ session.sales_data_summary # None
  /\ \/ \E c \in ExtractorFailures :
          /\ main' = [MainExcept(ExtractError(c)) EXCEPT !.completion = c,
                                                         !.extractions = @ + 1]
          /\ UNCHANGED inv
     \/ \E r \in SalesAnalysisResponses :
          IF r.products # << >>
          THEN /\ main' = [main EXCEPT !.pc = "psq_inventory", !.completion = "parsed",
                             !.extractions = @ + 1,
                             !.sales_response = r, !.inv_calls = @ + 1]
               /\ InvStart(r.products, "psq")
          ELSE /\ main' = [main EXCEPT !.pc = "show_historical",
                             !.completion = "parsed", !.extractions = @ + 1,
                             !.sales_response = r, !.ret = TupleOf(r, None)]
               /\ UNCHANGED inv
  /\ UNCHANGED <<host, view, data, catalog, aug, run, session, storage>>

\* main.py line 49 in a session without digest: reading
\* st.session_state.sales_data_summary raises before the call is made
MainNoDigest ==
  /\ main.pc = "extract"
  /\ session.sales_data_summary = None
  /\ main' = MainExcept(Exc("AttributeError", "st.session_state.sales_data_summary",
                             "sales_data_summary"))
  /\ UNCHANGED <<host, view, data, catalog, inv, aug, run, session, storage>>

\* openai_client.py lines 81-91: process_inventory_query has returned or
\* raised inside process_sales_query
MainPsqInventoryDone ==
  /\ main.pc = "psq_inventory"
  /\ inv.caller = "psq"
  /\ inv.pc \in {"returned", "raised"}
  /\ IF inv.pc = "raised"
     THEN main' = MainExcept(inv.error)
     ELSE main' = [main EXCEPT !.pc = "show_historical",
                     !.ret = TupleOf(main.sales_response, inv.result)]
  /\ inv' = [InvIdle EXCEPT !.calls = inv.calls]
  /\ UNCHANGED <<host, view, data, catalog, aug, run, session, storage>>

\* main.py lines 49-57: main binds the returned pair to sales_response and
\* reads sales_response.response_text from it. A pair has no such attribute,
\* so the statement raises and control goes to the handler of lines 86-88.
\* On an object that has the attribute the run would go on to lines 54-57,
\* where main itself calls process_inventory_query when there are products;
\* the lines after that call (58-84: augmentation, add_assistant_message)
\* are never entered and have no action here.
MainShowHistorical ==
  /\ main.pc = "show_historical"
  /\ IF HasAttr(main.ret, "response_text")
     THEN IF main.ret.products # << >>
          THEN /\ main' = [main EXCEPT !.pc = "main_inventory", !.inv_calls = @ + 1]
               /\ InvStart(main.ret.products, "main")
          ELSE /\ main' = [main EXCEPT !.pc = "check_products"]
               /\ UNCHANGED inv
     ELSE /\ main' = MainExcept(Exc("AttributeError", "sales_response.response_text",
                                    "tuple"))
          /\ UNCHANGED inv
  /\ UNCHANGED <<host, view, data, catalog, aug, run, session, storage>>

MainActions ==
  \/ MainStartupFails \/ MainRender \/ MainLogin \/ MainLogout
  \/ MainAcceptInput \/ MainExtract \/ MainNoDigest \/ MainPsqInventoryDone
  \/ MainShowHistorical

---------------------------------------------------------------------------
(* main.format_augmented_response *)
(* A Python string is the sequence of its lines, a line the sequence of   *)
(* the pieces the f-strings put together; the texts of an entry hold no    *)
(* line break. The pictograph at the head of each header is left out.      *)

Impacts == {"Positive", "Negative", "Neutral", "Mixed"}
Descriptions == {"first description", "second description"}

\* the entries of NewMarketInsights (schema.py lines 77-93); a name is any
\* str, the empty one included
MarketTrends ==
  {[trend |-> n, impact |-> i, description |-> d] :
     n \in {"", "Fitness awareness"}, i \in Impacts, d \in Descriptions}
Competitors ==
  {[competitor |-> n, action |-> "Market Entry", impact |-> i, description |-> d] :
     n \in {"", "NewBar Inc"}, i \in Impacts, d \in Descriptions}
RegulatoryConsiderations ==
  {[regulation |-> n, timeline |-> "Next quarter", impact |-> i, description |-> d] :
     n \in {"", "Nutrition labeling"}, i \in Impacts, d \in Descriptions}

RECURSIVE ListsOfLen(_, _)
ListsOfLen(S, k) ==
  IF k = 0 THEN {<< >>}
  ELSE {Append(l, e) : l \in ListsOfLen(S, k - 1), e \in S}
ListsUpTo(S, n) == UNION {ListsOfLen(S, k) : k \in 0..n}

\* a list that is empty or holds the one entry of the schema's example
ShortLists(S, name) ==
  {<< >>} \cup {<<e>> : e \in {x \in S : /\ x[name] # ""
                                          /\ x.impact = "Positive"
                                          /\ x.description = "first description"}}

\* the example entries of the three lists
ExampleEntries ==
  [market_trends |-> ShortLists(MarketTrends, "trend"),
   competitive_landscape |-> ShortLists(Competitors, "competitor"),
   regulatory_considerations |->
     ShortLists(RegulatoryConsiderations, "regulation")]

\* NewMarketInsights values: one list ranges over every list of up to
\* n entries while the other two are both empty or both hold their example
\* entry
NewMarketInsightsValues(n) ==
  UNION {
    {[market_trends |-> t,
      competitive_landscape |-> IF short THEN << >> ELSE
        CHOOSE l \in ExampleEntries.competitive_landscape : l # << >>,
      regulatory_considerations |-> IF short THEN << >> ELSE
        CHOOSE l \in ExampleEntries.regulatory_considerations : l # << >>] :
       t \in ListsUpTo(MarketTrends, n)}
    \cup
    {[market_trends |-> IF short THEN << >> ELSE
        CHOOSE l \in ExampleEntries.market_trends : l # << >>,
      competitive_landscape |-> c,
      regulatory_considerations |-> IF short THEN << >> ELSE
        CHOOSE l \in ExampleEntries.regulatory_considerations : l # << >>] :
       c \in ListsUpTo(Competitors, n)}
    \cup
    {[market_trends |-> IF short THEN << >> ELSE
        CHOOSE l \in ExampleEntries.market_trends : l # << >>,
      competitive_landscape |-> IF short THEN << >> ELSE
        CHOOSE l \in ExampleEntries.competitive_landscape : l # << >>,
      regulatory_considerations |-> r] :
       r \in ListsUpTo(RegulatoryConsiderations, n)}
    : short \in BOOLEAN }

Timestamps == {1, 2}

\* AugmentedResponse (schema.py lines 118-124), created at the first instant
AugmentedResponses(n) ==
  {[cls |-> "AugmentedResponse",
    initial_response |-> SalesAnalysisResponseObj(<<Product("Energy Bars")>>,
                                                  "next month"),
    market_insights |-> mi, timestamp |-> 1] :
     mi \in NewMarketInsightsValues(n)}

\* lines 140-146, 162-168, 184-190: the three copies of the impact mapping
ImpactFormattedNoNeutral(impact) ==
  IF impact = "Positive" THEN <<"**:green[", impact, "]**">>
  ELSE IF impact = "Negative" THEN <<"**:red[", impact, "]**">>
  ELSE <<"**", impact, "**">>

ImpactFormattedTrend(impact) ==
  IF impact = "Positive" THEN <<"**:green[", impact, "]**">>
  ELSE IF impact = "Negative" THEN <<"**:red[", impact, "]**">>
  ELSE IF impact = "Neutral" THEN <<"**:blue[", impact, "]**">>
  ELSE <<"**", impact, "**">>

ImpactFormattedCompetitor(impact) ==
  IF impact = "Positive" THEN <<"**:green[", impact, "]**">>
  ELSE IF impact = "Negative" THEN <<"**:red[", impact, "]**">>
  ELSE IF impact = "Neutral" THEN <<"**:blue[", impact, "]**">>
  ELSE <<"**", impact, "**">>

ImpactFormattedRegulation(impact) ==
  IF impact = "Positive" THEN <<"**:green[", impact, "]**">>
  ELSE IF impact = "Negative" THEN <<"**:red[", impact, "]**">>
  ELSE IF impact = "Neutral" THEN <<"**:blue[", impact, "]**">>
  ELSE <<"**", impact, "**">>

\* lines 148-151, 170-173, 192-195: one appended line per entry
MarketTrendLine(e) ==
  IF e.trend # ""
  THEN <<"* **", e.trend, "** (">> \o ImpactFormattedTrend(e.impact)
         \o <<"): ", e.description>>
  ELSE <<"* ", e.description>>

CompetitorLine(e) ==
  IF e.competitor # ""
  THEN <<"* **", e.competitor, "** - ", e.action, " (">>
         \o ImpactFormattedCompetitor(e.impact) \o <<"): ", e.description>>
  ELSE <<"* ", e.description>>

RegulationLine(e) ==
  IF e.regulation # ""
  THEN <<"* **", e.regulation, "** - ", e.timeline, " (">>
         \o ImpactFormattedRegulation(e.impact) \o <<"): ", e.description>>
  ELSE <<"* ", e.description>>

\* lines 198-200 keeping the first line only
JoinLinesFirstOnly(lines) == IF lines = << >> THEN <<EmptyStr>> ELSE <<lines[1]>>

\* lines 198-200: "\n".join(list), as lines; joining nothing gives the empty
\* string, which is one empty line of the template
JoinLines(lines) == IF lines = << >> THEN <<EmptyStr>> ELSE lines

\* lines 207-208 with the timestamp of the response in the answer's line
HistoricalSectionStamped(augmented_response) ==
  << <<"## Historical Data Analysis">>,
     <<augmented_response.initial_response.response_text,
       <<"timestamp", augmented_response.timestamp>> >> >>

\* lines 127 and 207-208
HistoricalSection(augmented_response) ==
  << <<"## Historical Data Analysis">>,
     <<augmented_response.initial_response.response_text>> >>

\* lines 203, 210, 215, 220: an empty line, the divider, an empty line
Divider == << EmptyStr, <<"---">>, EmptyStr >>

\* lines 126-226
format_augmented_response(augmented_response) ==
  LET market_insights == augmented_response.market_insights
      market_trends ==
        [k \in 1..Len(market_insights.market_trends) |->
           MarketTrendLine(market_insights.market_trends[k])]
      competitive_landscape ==
        [k \in 1..Len(market_insights.competitive_landscape) |->
           CompetitorLine(market_insights.competitive_landscape[k])]
      regulatory_considerations ==
        [k \in 1..Len(market_insights.regulatory_considerations) |->
           RegulationLine(market_insights.regulatory_considerations[k])]
  IN <<EmptyStr>> \o HistoricalSection(augmented_response)
     \o Divider \o << <<"## Market Trends">> >> \o JoinLines(market_trends)
     \o Divider \o << <<"## Competitive Landscape">> >>
     \o JoinLines(competitive_landscape)
     \o Divider \o << <<"## Regulatory Considerations">> >>
     \o JoinLines(regulatory_considerations)
     \o << <<"    ">> >>

\* the calls of format_augmented_response made so far: argument and result
ViewIdle == [calls |-> << >>]

\* the responses with the answer text and the insights of a given one,
\* created at any instant
SameContent(a) == {[a EXCEPT !.timestamp = ts] : ts \in Timestamps}

\* a call of format_augmented_response; a later call is made on a response
\* with the answer text and the insights of the first
FormatCall ==
  /\ Len(view.calls) < MaxCalls
  /\ \E augmented_response \in
         IF view.calls = << >> THEN AugmentedResponses(MaxEntries)
         ELSE SameContent(view.calls[1].arg) :
       /\ view' = [view EXCEPT !.calls =
            Append(@, [arg |-> augmented_response,
                       out |-> format_augmented_response(augmented_response)])]
  /\ UNCHANGED <<host, data, catalog, inv, aug, run, main, session, storage>>

---------------------------------------------------------------------------
(* utils.conversation_storage.ConversationStorage called directly *)

\* the messages of the chat histories passed to save_conversation
StoredMessages ==
  {ChatMessage("user", "question", 1), ChatMessage("assistant", "answer", 2),
   ChatMessage("user", "question", 2)}
HistoriesOfLen(n) == [1..n -> StoredMessages]
ChatHistories(n) == UNION {HistoriesOfLen(k) : k \in 0..n}

\* last: the latest call; saved: for each username the chat history of its
\* latest save_conversation call that returned True
StorageIdle == [last |-> None, saved |-> [u \in Users |-> None]]

StorageSave ==
  \E username \in Users \cup {EmptyStr} :
    \E chat_history \in ChatHistories(MaxMessages) :
      LET ret == save_conversation_returns(username)
      IN /\ host' = [host EXCEPT !.files =
                       save_conversation(@, username, chat_history)]
         /\ storage' =
              [last |-> [op |-> "save_conversation", username |-> username,
                         ret |-> ret],
               saved |-> IF ret
                         THEN [storage.saved EXCEPT ![username] =
                                 [chat_history |-> chat_history]]
                         ELSE storage.saved]
         /\ UNCHANGED <<view, data, catalog, inv, aug, run, main, session>>

StorageLoad ==
  /\ \E username \in Users \cup {EmptyStr} :
       storage' = [storage EXCEPT !.last =
         [op |-> "load_conversation", username |-> username,
          ret |-> load_conversation(host.files, username)]]
  /\ UNCHANGED <<host, view, data, catalog, inv, aug, run, main, session>>

StorageList ==
  /\ storage' = [storage EXCEPT !.last =
       [op |-> "get_available_users", username |-> EmptyStr,
        ret |-> get_available_users(host.files)]]
  /\ UNCHANGED <<host, view, data, catalog, inv, aug, run, main, session>>

---------------------------------------------------------------------------
(* Specifications *)

\* the catalog of the specification's example, for the behaviours in which
\* no lookup happens
ExampleCatalog == <<CatalogItem(1, "Energy Bars")>>

Init ==
  /\ host \in {HostInit(env, csv) : env \in Envs, csv \in CsvStates}
  /\ view = ViewIdle
  /\ data = DataIdle
  /\ catalog = ExampleCatalog
  /\ inv = InvIdle
  /\ aug = AugIdle
  /\ run = RunIdle
  /\ main = MainIdle
  /\ session = SessionInit
  /\ storage = StorageIdle

\* the script: user queries through main
Next == MainActions \/ InvActions
Spec == Init /\ [][Next]_vars

\* process_inventory_query called directly
NextInv == InvCallDirect \/ InvActions
InitInv ==
  /\ host = HostInit(FullEnv, "rows")
  /\ view = ViewIdle
  /\ data = DataIdle
  /\ catalog \in Catalogs
  /\ inv = InvIdle
  /\ aug = AugIdle
  /\ run = RunIdle
  /\ main = MainIdle
  /\ session = SessionInit
  /\ storage = StorageIdle
SpecInv == InitInv /\ [][NextInv]_vars

\* augment_sales_response called directly
NextAug == AugCallDirect \/ AugActions
InitAug ==
  /\ host = HostInit(FullEnv, "rows")
  /\ view = ViewIdle
  /\ data = DataIdle
  /\ catalog = ExampleCatalog
  /\ inv = InvIdle
  /\ aug = AugIdle
  /\ run = RunIdle
  /\ main = MainIdle
  /\ session = SessionInit
  /\ storage = StorageIdle
SpecAug == InitAug /\ [][NextAug]_vars

\* generate_sales_data_summary called on a preprocessed frame
InitSummary ==
  /\ host = HostInit(FullEnv, "rows")
  /\ view = ViewIdle
  /\ data \in {[DataIdle EXCEPT !.sales_data = d] : d \in Datasets(MaxRows)}
  /\ catalog = ExampleCatalog
  /\ inv = InvIdle
  /\ aug = AugIdle
  /\ run = RunIdle
  /\ main = MainIdle
  /\ session = SessionInit
  /\ storage = StorageIdle
NextSummary == SummaryCall
SpecSummary == InitSummary /\ [][NextSummary]_vars

\* format_augmented_response called directly
NextFormat == FormatCall
SpecFormat == InitAug /\ [][NextFormat]_vars

\* the functions of ConversationStorage called directly, on a conversations
\* directory that is empty at first
NextStorage == StorageSave \/ StorageLoad \/ StorageList
SpecStorage == InitAug /\ [][NextStorage]_vars

---------------------------------------------------------------------------
(* Claims about the Inventory Lookup and the Inventory Responder (SpecInv) *)

InvEnded == inv.pc \in {"returned", "raised"}

\* positions of the catalog whose name is exactly product_name
ExactMatches(product_name) ==
  {k \in 1..Len(catalog) : catalog[k].name = product_name}

FirstOf(S) == CHOOSE k \in S : \A j \in S : k <= j

LookupIsExact(l) ==
  LET m == ExactMatches(l.product_name) IN
    /\ (l.result # None) <=> (m # {})
    /\ m # {} =>
         l.result = [type |-> "InventoryItem", id |-> catalog[FirstOf(m)].id,
                     name |-> l.product_name,
                     quantity_in_stock |-> catalog[FirstOf(m)].quantity_in_stock]

\* C9: every lookup returns the {id, name, quantity_in_stock} record of the
\* first catalog item whose name equals product_name exactly (case-sensitive),
\* and None when there is no such item; no step changes the catalog.
C9_LookupExactFirstMatch ==
  /\ [](\A k \in 1..Len(inv.lookups) : LookupIsExact(inv.lookups[k]))
  /\ [][catalog' = catalog]_vars

\* C9 witness: with two items named "Energy Bars" in the catalog, a lookup of
\* "Energy Bars" returned the first one and a lookup of "energy bars" None.
C9_Witness ==
  /\ Len(catalog) = 2
  /\ catalog[1].name = "Energy Bars" /\ catalog[2].name = "Energy Bars"
  /\ Len(inv.lookups) = 2
  /\ inv.lookups[1].product_name = "Energy Bars"
  /\ inv.lookups[1].result # None
  /\ inv.lookups[1].result.id = <<"INV", 1>>
  /\ inv.lookups[2].product_name = "energy bars"
  /\ inv.lookups[2].result = None

\* the tool calls and results the claim expects after the original messages
RECURSIVE ExpectedToolMessages(_)
ExpectedToolMessages(output) ==
  IF output = << >> THEN << >>
  ELSE IF output[1].type = "function_call"
       THEN << output[1],
               [type |-> "function_call_output", call_id |-> output[1].call_id,
                output |-> ToolOutput(get_inventory(catalog,
                                        output[1].arguments.product_name))] >>
            \o ExpectedToolMessages(Tail(output))
       ELSE ExpectedToolMessages(Tail(output))

RECURSIVE RequestedNames(_)
RequestedNames(output) ==
  IF output = << >> THEN << >>
  ELSE IF output[1].type = "function_call"
       THEN <<output[1].arguments.product_name>> \o RequestedNames(Tail(output))
       ELSE RequestedNames(Tail(output))

\* C10: a call whose first round answered and in which no API call failed
\* makes exactly two LLM round-trips whatever the number of tool calls, does
\* one lookup per get_inventory call in emission order, and hands the second
\* round the original messages followed by the tool calls and their results.
C10_TwoRoundsAlways ==
  (InvEnded /\ inv.output # << >>
     /\ (inv.error # None => inv.error.cls # "APIError"))
  => /\ inv.rounds = 2
     /\ [k \in 1..Len(inv.lookups) |-> inv.lookups[k].product_name]
          = RequestedNames(inv.output)
     /\ inv.messages
          = InitialMessages(inv.products) \o ExpectedToolMessages(inv.output)

\* the function_call_output messages of the call, in order
IsToolResult(m) == HasAttr(m, "type") /\ m.type = "function_call_output"
ToolResults == SelectSeq(inv.messages, IsToolResult)

\* the payloads a found record can have, over every catalog of the model
FoundPayloads ==
  {JsonDumps(InventoryItem(CatalogItem(i, n))) : i \in 1..MaxCatalog, n \in Names}

ReturnedIds ==
  {inv.lookups[k].result.id :
     k \in {j \in 1..Len(inv.lookups) : inv.lookups[j].result # None}}

\* C13: the source of a returned InventoryResponse is the id of a record
\* that a lookup of the call returned, and is empty when no lookup returned
\* a record.
C13_SourceIsLookedUpId ==
  inv.pc = "returned"
  => IF ReturnedIds = {} THEN inv.result.source = EmptyStr
     ELSE inv.result.source \in ReturnedIds

---------------------------------------------------------------------------
(* Claims about the Market Augmenter (SpecAug) *)

AugEnded == aug.pc \in {"returned", "raised"}

HasOp(name) == \E k \in 1..Len(aug.ops) : aug.ops[k].op = name

RunFailedError(status) ==
  Exc("Exception", "_wait_for_run", <<"Assistant run failed with status:", status>>)
TimeoutError == Exc("Exception", "_wait_for_run", <<"Assistant run timed out">>)

\* C4: once a poll has observed failed, cancelled or expired, the call has
\* ended with an error carrying that status, its last external operation is
\* that poll, and the thread's messages were never listed.
C4_TerminalFailureStopsPolling ==
  aug.last_status \in FailStatuses
  => /\ aug.pc = "raised"
     /\ aug.wait = "run_failed"
     /\ aug.error = RunFailedError(aug.last_status)
     /\ aug.ops[Len(aug.ops)].op = "retrieve"
     /\ ~HasOp("list_messages")

\* C4 witness: the run went queued -> in_progress -> failed under the polls:
\* the failure was observed after at least two waits.
C4_Witness ==
  /\ aug.last_status = "failed"
  /\ aug.pc = "raised"
  /\ aug.elapsed >= 2 * poll_interval

\* C5: the timeout error is raised only when at least max_wait_seconds have
\* passed since polling started, no poll having observed a terminal status,
\* and it differs from every run-failure error.
C5_TimeoutNotBeforeCeiling ==
  aug.wait = "timeout"
  => /\ aug.elapsed >= max_wait_seconds
     /\ aug.pc = "raised"
     /\ aug.error = TimeoutError
     /\ \A st \in RunStatuses : aug.error # RunFailedError(st)
     /\ aug.last_status \notin FailStatuses \cup {"completed"}

\* C5 witness: a run that stayed in_progress until the ceiling timed out.
C5_Witness ==
  /\ aug.wait = "timeout"
  /\ aug.last_status = "in_progress"
  /\ run.status = "in_progress"

\* C6 as stated: the wait ends in one of three outcomes, and a run that was
\* completed at some time before the ceiling is reported as success, not as
\* a timeout (polls that raise an API error are left aside).
C6_CompletedBeforeCeilingIsSuccess ==
  aug.wait # "api_error"
  => /\ aug.wait \in {"none", "returned", "run_failed", "timeout"}
     /\ aug.wait = "timeout" => ~run.completed_in_time

\* C6 amended: the wait ends by returning on the first poll that observes
\* completed, by failing on the first poll that observes failed, cancelled
\* or expired, by timing out, or by the error of a poll that raised; any
\* other observed status leads to a wait of one unit and then, while less
\* than max_wait_seconds have passed, to another poll; every poll starts
\* before the ceiling; a timeout means that no poll observed a terminal
\* status, also when the run completed after the last poll.
C6_WaitOutcomes ==
  /\ [](/\ aug.wait \in {"none", "returned", "run_failed", "timeout", "api_error"}
        /\ (aug.last_status = "completed") <=> (aug.wait = "returned")
        /\ aug.last_status \in FailStatuses <=> aug.wait = "run_failed"
        /\ aug.wait = "returned" => aug.pc \in {"list", "parse", "construct", "raised"}
        /\ aug.wait = "timeout" => aug.last_status \notin FailStatuses \cup {"completed"}
        /\ aug.pc = "sleep" => aug.last_status \notin FailStatuses \cup {"completed", "none"}
        /\ aug.pc = "retrieve" => aug.elapsed < max_wait_seconds
        /\ aug.elapsed < max_wait_seconds + MaxLatency + poll_interval)
  /\ [][aug.pc = "sleep" /\ aug' # aug
          => aug'.pc = "loop" /\ aug'.elapsed = aug.elapsed + 1]_vars
  /\ [][aug.pc = "loop" /\ aug' # aug
          => IF aug.elapsed < max_wait_seconds
             THEN aug'.pc = "retrieve" /\ aug'.wait = "none"
             ELSE aug'.wait = "timeout"]_vars

\* C6 witness: the run completed before the ceiling, after the last poll,
\* and the wait timed out.
C6_Witness ==
  /\ aug.wait = "timeout"
  /\ run.status = "completed"
  /\ run.completed_in_time

\* C7: after the assistant's message failed to parse as MarketInsights, the
\* call has ended with the parse error, and no placeholder insights exist.
C7_ParseFailureIsSurfaced ==
  aug.parse_failed
  => /\ aug.pc = "raised"
     /\ aug.error.at = "MarketInsights(**dict)"
     /\ aug.market_insights # PlaceholderInsights

\* the products and time period the response object carries
ExtractedOf(arg) ==
  IF HasAttr(arg, "products")
  THEN [products |-> [k \in 1..Len(arg.products) |-> arg.products[k]],
        time_period |-> arg.time_period]
  ELSE IF HasAttr(arg, "data") /\ arg.data # None
  THEN [products |-> DictGet(arg.data, "products", << >>),
        time_period |-> DictGet(arg.data, "time_period", "unknown")]
  ELSE [products |-> << >>, time_period |-> "unknown"]

\* C8: a call that ended without an API error did create-thread on a thread
\* no earlier call used, then create-message with the first product, the
\* time period and the answer text, then create-run, then polled, and listed
\* the messages (desc, limit 1) only after a poll observed completed.
C8_FixedOperationOrder ==
  (AugEnded /\ (aug.error # None => aug.error.cls # "APIError"))
  => /\ Len(aug.ops) >= 4
     /\ aug.ops[1] = [op |-> "create_thread", thread |-> run.threads]
     /\ aug.ops[2].op = "create_message"
     /\ aug.ops[2].role = "user"
     /\ aug.ops[2].content =
          create_message_content(aug.arg, FirstProduct(ExtractedOf(aug.arg).products),
                                 ExtractedOf(aug.arg).time_period)
     /\ aug.ops[3].op = "create_run"
     /\ aug.ops[4].op = "retrieve"
     /\ Len(aug.ops) = 5 =>
          /\ aug.ops[5] = [op |-> "list_messages", thread |-> aug.thread,
                           order |-> "desc", limit |-> 1]
          /\ aug.last_status = "completed"
     /\ Len(aug.ops) <= 5

---------------------------------------------------------------------------
(* Claims about the pipeline of main (Spec) *)

\* the run of the script that took a query has ended, and process_sales_query
\* had returned the extraction result for it
QueryEndedAfterExtraction == main.pc = "idle" /\ main.ret # None

\* the messages the chat history gained since the query was accepted, the
\* user message excluded
GainedMessages ==
  LET gained == SubSeq(session.chat_history, main.history_before + 2,
                       Len(session.chat_history))
  IN [k \in 1..Len(gained) |->
        [role |-> gained[k].role, content |-> gained[k].content]]

AssistantSays(text) == [role |-> "assistant", content |-> text]

\* C1: for a query whose extraction succeeded, the Inventory Responder was
\* invoked iff products is non-empty, and the Market Augmenter was invoked
\* iff products is non-empty and time_period is not "unknown".
C1_StagesGatedByProductsAndPeriod ==
  QueryEndedAfterExtraction
  => /\ (main.inv_calls > 0) <=> (main.sales_response.products # << >>)
     /\ (aug.calls > 0) <=> (/\ main.sales_response.products # << >>
                             /\ main.sales_response.time_period # "unknown")

\* C2: when augmentation is skipped (products empty or time_period
\* "unknown"), exactly one assistant message is appended and its content is
\* response_text; for empty products neither later stage is invoked.
C2_PlainAnswerVerbatim ==
  (/\ QueryEndedAfterExtraction
   /\ \/ main.sales_response.products = << >>
      \/ main.sales_response.time_period = "unknown")
  => /\ GainedMessages
          = <<AssistantSays(main.sales_response.response_text)>>
     /\ main.sales_response.products = << >>
          => main.inv_calls = 0 /\ aug.calls = 0

\* C3: a query for which augmentation was due and produced no
\* AugmentedResponse is not aborted: the chat history gained an assistant
\* message whose content is the extractor's answer text.
C3_FallbackToPlainAnswer ==
  (/\ QueryEndedAfterExtraction
   /\ main.sales_response.products # << >>
   /\ main.sales_response.time_period # "unknown"
   /\ aug.result = None)
  => \E k \in 1..Len(GainedMessages) :
       GainedMessages[k]
         = AssistantSays(main.sales_response.response_text)

\* the Inventory Responder raised, or its second round's text was invalid
InvFailed ==
  \/ inv.error # None
  \/ inv.completion_2 # None /\ ~inv.completion_2.valid

\* C12: when the extractor's LLM call fails or its content cannot be
\* validated, the run ends in main's handler with that error, no extraction
\* result and no returned value; when a round of the Inventory Responder
\* fails or its text cannot be validated, the responder raises and has no
\* result, a returned result is the validated text itself, and a responder
\* error inside process_sales_query reaches main unchanged, nothing returned.
C12_NoLocalRecovery ==
  /\ [](/\ main.completion \in ExtractorFailures
           => /\ main.pc = "idle"
              /\ main.error = ExtractError(main.completion)
              /\ main.sales_response = None
              /\ main.ret = None
        /\ InvFailed
           => /\ inv.pc = "raised"
              /\ inv.error # None
              /\ inv.result = None
        /\ inv.pc = "returned"
           => /\ inv.completion_2.valid
              /\ inv.result.answer = inv.completion_2.answer
              /\ inv.result.source = inv.completion_2.source)
  /\ [][main.pc = "psq_inventory" /\ inv.pc = "raised" /\ main' # main
          => /\ main'.pc = "idle"
             /\ main'.error = inv.error
             /\ main'.ret = None]_vars

\* C12 witness: the second round of the Inventory Responder, called from
\* process_sales_query, answered with a text that does not validate, and
\* the responder raised.
C12_Witness ==
  /\ main.pc = "psq_inventory"
  /\ inv.completion_2 # None
  /\ ~inv.completion_2.valid
  /\ inv.pc = "raised"

\* C18: an extraction result never has an empty time_period (a null one
\* does not validate as str), and a time_period other than "unknown" is a
\* recognized time period.
C18_UnknownIsTheOnlySentinel ==
  main.sales_response # None
  => /\ main.sales_response.time_period # ""
     /\ main.sales_response.time_period # "unknown"
          => main.sales_response.time_period \in RecognizedPeriods

\* a run of the script has reached initialize_clients in this session
ScriptHasRun ==
  /\ session.sales_data = "loaded"
  /\ main.error # None => main.error.at # "generate_sales_data_summary"

AllClientsStored == session.openai_client /\ session.assistant_client

\* no query was accepted and nothing of the interface was used
NothingProcessed ==
  /\ main.pc = "idle"
  /\ main.queries = 0
  /\ inv.calls = 0
  /\ session.username = EmptyStr
  /\ session.chat_history = << >>

\* C19 as stated: when OPENAI_API_KEY or OPENAI_ASSISTANT_ID is missing,
\* every run ends with the configuration error, the session stores no
\* client, and no query is processed.
C19_NoClientStoredWithoutCredentials ==
  ~(host.env.OPENAI_API_KEY /\ host.env.OPENAI_ASSISTANT_ID)
  => /\ ~session.openai_client
     /\ ~session.assistant_client
     /\ NothingProcessed
     /\ ScriptHasRun => main.error # None /\ main.error.cls = "ValueError"

\* C19 amended: a client whose construction failed is never stored (without
\* OPENAI_API_KEY neither client is, without OPENAI_ASSISTANT_ID the
\* AssistantClient is not, while the OpenAIClient constructed before it stays
\* stored); every run of such a session ends with the ValueError naming the
\* missing variable, and a session that does not hold both clients has
\* processed nothing; with both variables set every run stores both clients.
C19_FailedClientNotStored ==
  /\ ~host.env.OPENAI_API_KEY
       => /\ ~session.openai_client /\ ~session.assistant_client
          /\ ScriptHasRun
               => main.error = ConfigError("OPENAI_API_KEY", "OpenAIClient()")
  /\ (host.env.OPENAI_API_KEY /\ ~host.env.OPENAI_ASSISTANT_ID)
       => /\ ~session.assistant_client
          /\ ScriptHasRun
               => /\ session.openai_client
                  /\ main.error
                       = ConfigError("OPENAI_ASSISTANT_ID", "AssistantClient()")
  /\ ~AllClientsStored => NothingProcessed
  /\ (host.env.OPENAI_API_KEY /\ host.env.OPENAI_ASSISTANT_ID /\ ScriptHasRun)
       => AllClientsStored

\* C19 witness: with OPENAI_API_KEY set and OPENAI_ASSISTANT_ID missing, a
\* run ended with the configuration error of AssistantClient and the
\* session holds the OpenAIClient only.
C19_Witness ==
  /\ host.env.OPENAI_API_KEY
  /\ ~host.env.OPENAI_ASSISTANT_ID
  /\ ScriptHasRun
  /\ session.openai_client
  /\ ~session.assistant_client
  /\ main.error # None
  /\ main.error.at = "AssistantClient()"

\* C20: while a user is logged in, right after add_user_message has appended
\* to the chat history, the file of that user holds the chat history as
\* save_conversation writes it.
C20_SavedAfterEveryAppend ==
  (session.username # EmptyStr /\ main.pc = "extract")
  => /\ host.files[FileName(session.username)] # None
     /\ host.files
          = save_conversation(host.files, session.username, session.chat_history)

---------------------------------------------------------------------------
(* Claims about the sales data digest (SpecSummary) *)

\* the rows of the frame that belong to a product
RowsOf(product) ==
  {k \in 1..Len(data.sales_data) : data.sales_data[k].Product = product}

RECURSIVE UnitsOver(_)
UnitsOver(S) ==
  IF S = {} THEN 0
  ELSE LET k == CHOOSE j \in S : TRUE
       IN data.sales_data[k].Sales_Units + UnitsOver(S \ {k})

---------------------------------------------------------------------------
(* Claims about format_augmented_response (SpecFormat) *)

\* C15: any two calls on responses with the same answer text and the same
\* market insights gave the same output, whatever their timestamps.
C15_OutputIgnoresTimestamp ==
  \A i, j \in 1..Len(view.calls) :
    (/\ view.calls[i].arg.initial_response.response_text
          = view.calls[j].arg.initial_response.response_text
     /\ view.calls[i].arg.market_insights = view.calls[j].arg.market_insights)
    => view.calls[i].out = view.calls[j].out

\* C15 witness: two calls on responses that differ in their timestamp only
\* and hold two market trends.
C15_Witness ==
  /\ Len(view.calls) = 2
  /\ view.calls[1].arg.timestamp # view.calls[2].arg.timestamp
  /\ Len(view.calls[1].arg.market_insights.market_trends) = 2

\* the sections of the output: header, list of the insights, name field
InsightSections ==
  << [header |-> "## Market Trends", list |-> "market_trends", name |-> "trend"],
     [header |-> "## Competitive Landscape", list |-> "competitive_landscape",
      name |-> "competitor"],
     [header |-> "## Regulatory Considerations",
      list |-> "regulatory_considerations", name |-> "regulation"] >>

HeaderPositions(out, header) == {k \in 1..Len(out) : out[k] = <<header>>}
HeaderPos(out, header) == CHOOSE k \in HeaderPositions(out, header) : TRUE

\* the lines between the header of insight section n and the blank line
\* before the next divider (the closing line for the last section)
SectionBody(out, n) ==
  LET from == HeaderPos(out, InsightSections[n].header) + 1
      to == IF n < Len(InsightSections)
            THEN HeaderPos(out, InsightSections[n + 1].header) - 4
            ELSE Len(out) - 1
  IN SubSeq(out, from, to)

IsBullet(line) == line # << >> /\ line[1] \in {"* **", "* "}

\* C16: the output has each of the four headers once, in the order
\* historical analysis, market trends, competitive landscape, regulatory
\* considerations; the historical section holds the answer text; the body
\* of an insight section has one bullet per entry of its list, the k-th
\* bullet ending with the k-th entry's description and naming the entry
\* when it has a name; the body of an empty list is one empty line.
C16_SectionsInOrderOneBulletPerEntry ==
  \A c \in 1..Len(view.calls) :
    LET out == view.calls[c].out
        arg == view.calls[c].arg
        hist == HeaderPositions(out, "## Historical Data Analysis")
    IN /\ Cardinality(hist) = 1
       /\ \A n \in 1..3 :
            Cardinality(HeaderPositions(out, InsightSections[n].header)) = 1
       /\ (CHOOSE k \in hist : TRUE) < HeaderPos(out, InsightSections[1].header)
       /\ HeaderPos(out, InsightSections[1].header)
            < HeaderPos(out, InsightSections[2].header)
       /\ HeaderPos(out, InsightSections[2].header)
            < HeaderPos(out, InsightSections[3].header)
       /\ out[(CHOOSE k \in hist : TRUE) + 1] = <<arg.initial_response.response_text>>
       /\ \A n \in 1..3 :
            LET list == arg.market_insights[InsightSections[n].list]
                body == SectionBody(out, n)
            IN IF list = << >> THEN body = <<EmptyStr>>
               ELSE /\ Len(body) = Len(list)
                    /\ \A k \in 1..Len(list) :
                         /\ IsBullet(body[k])
                         /\ body[k][Len(body[k])] = list[k].description
                         /\ list[k][InsightSections[n].name] # ""
                              => body[k][2] = list[k][InsightSections[n].name]

\* C16 witness: a response with two competitors whose descriptions differ
\* and with no market trend and no regulation was formatted.
C16_Witness ==
  /\ view.calls # << >>
  /\ LET mi == view.calls[1].arg.market_insights
     IN /\ mi.market_trends = << >>
        /\ mi.regulatory_considerations = << >>
        /\ Len(mi.competitive_landscape) = 2
        /\ mi.competitive_landscape[1].description
             # mi.competitive_landscape[2].description

\* the annotation of an impact value: colour markup around Positive,
\* Negative and Neutral, plain bold around anything else
Annotation(impact) ==
  CASE impact = "Positive" -> <<"**:green[", impact, "]**">>
    [] impact = "Negative" -> <<"**:red[", impact, "]**">>
    [] impact = "Neutral" -> <<"**:blue[", impact, "]**">>
    [] OTHER -> <<"**", impact, "**">>

\* the line holds the impact with its annotation
RendersImpact(line, impact) ==
  \E i \in 1..(Len(line) - 2) : SubSeq(line, i, i + 2) = Annotation(impact)

\* C17 as stated: in each of the three insight sections the bullet of every
\* entry renders the entry's impact with the one fixed mapping.
C17_ImpactAnnotatedForEveryEntry ==
  \A c \in 1..Len(view.calls) : \A n \in 1..3 :
    LET list == view.calls[c].arg.market_insights[InsightSections[n].list]
        body == SectionBody(view.calls[c].out, n)
    IN \A k \in 1..Len(list) : RendersImpact(body[k], list[k].impact)

\* C17 amended: in each of the three insight sections the bullet of an entry
\* whose name is not empty renders the entry's impact with the one fixed
\* mapping (green, red and blue markup for Positive, Negative and Neutral,
\* plain bold for any other value); the bullet of an entry whose name is
\* empty is its description alone and renders no impact.
C17_ImpactAnnotatedForNamedEntries ==
  \A c \in 1..Len(view.calls) : \A n \in 1..3 :
    LET list == view.calls[c].arg.market_insights[InsightSections[n].list]
        body == SectionBody(view.calls[c].out, n)
    IN \A k \in 1..Len(list) :
         IF list[k][InsightSections[n].name] # ""
         THEN RendersImpact(body[k], list[k].impact)
         ELSE /\ body[k] = <<"* ", list[k].description>>
              /\ \A i \in Impacts : ~RendersImpact(body[k], i)

\* C17 witness: a response with a named Neutral regulation followed by an
\* unnamed Positive one, and with a named trend and competitor, was formatted.
C17_Witness ==
  /\ view.calls # << >>
  /\ LET mi == view.calls[1].arg.market_insights
     IN /\ Len(mi.regulatory_considerations) = 2
        /\ mi.regulatory_considerations[1].regulation # ""
        /\ mi.regulatory_considerations[1].impact = "Neutral"
        /\ mi.regulatory_considerations[2].regulation = ""
        /\ mi.regulatory_considerations[2].impact = "Positive"
        /\ Len(mi.market_trends) = 1
        /\ Len(mi.competitive_landscape) = 1

---------------------------------------------------------------------------
\* a step keeps the stored digest and the stored clients as they are
C21_StoredIsKept ==
  /\ (session.sales_data_summary # None)
       => (session'.sales_data_summary = session.sales_data_summary)
  /\ session.openai_client
       => (/\ session'.openai_client
           /\ session'.openai_constructed = session.openai_constructed)
  /\ session.assistant_client
       => (/\ session'.assistant_client
           /\ session'.assistant_constructed = session.assistant_constructed)

\* C21: within one session, over any number of runs of the script, the
\* dataset is loaded at most once and summarized at most once, each client is
\* constructed at most once (a stored client is never constructed again),
\* and a stored digest is never changed by any step, the steps that process
\* a query included.
C21_LoadedAndConstructedOnce ==
  /\ [](/\ session.loads <= 1
        /\ session.summaries <= 1
        /\ session.openai_constructed <= 1
        /\ session.assistant_constructed <= 1)
  /\ [][C21_StoredIsKept]_vars

\* every query of the session has been processed, on later runs of the
\* script, with the digest and both clients of the first run
C21_Witness ==
  /\ session.loads = 1
  /\ session.summaries = 1
  /\ session.sales_data_summary = generate_sales_data_summary(ExampleFrame)
  /\ session.openai_constructed = 1
  /\ session.assistant_constructed = 1
  /\ main.queries = MaxQueries
  /\ main.pc = "idle"
  /\ main.error # None

\* the user has a saved conversation: the file save_conversation writes for
\* that username is in the conversations directory
HasSavedConversation(username) == FileName(username) \in ListDir(host.files)

\* the step of the Login button with the username u
LoginAs(u) == session.username = EmptyStr /\ session'.username = u

\* C22: a Login with a username that has a saved conversation sets the
\* session username and replaces the chat history by the stored conversation
\* of that user; a Login with a username that has none sets the username and
\* leaves the chat history as it is.
C22_LoadOnLogin ==
  [][\A u \in Users :
       LoginAs(u) =>
         IF HasSavedConversation(u)
         THEN session'.chat_history = load_conversation(host.files, u)
         ELSE session'.chat_history = session.chat_history]_vars

\* main.py line 78: the content of the message with the inventory answer
InventoryMessage(inventory_response) ==
  <<inventory_response.answer, " (Inventory ID: ", inventory_response.source, ")">>

\* C23: a query for which the extraction gave products and a time period,
\* the Inventory Responder returned its answer and no call of the Market
\* Augmenter failed has ended with two more messages in the chat history, in
\* this order: the assistant message with the inventory answer and its
\* inventory id, then the assistant message with the formatted augmented
\* response.
C23_ComposesAllThreeOutputs ==
  (/\ QueryEndedAfterExtraction
   /\ main.sales_response.products # << >>
   /\ main.sales_response.time_period # "unknown"
   /\ main.ret.items[2] # None
   /\ aug.error = None)
  => /\ Len(GainedMessages) = 2
     /\ GainedMessages[1] = AssistantSays(InventoryMessage(main.ret.items[2]))
     /\ aug.result # None
     /\ GainedMessages[2] = AssistantSays(format_augmented_response(aug.result))

QueryTaken == main.has_input

\* C25: from the moment a query is accepted, before the extraction or any
\* other LLM call is made, the chat history holds exactly one more message
\* than before, the user message with the text of the query. A failure of any
\* later stage ends the run in main's handler (the Inventory Responder's
\* error is pending until main takes it); the user message is then still the
\* last message of the history and no assistant message was added.
C25_UserMessageFirstAndKept ==
  QueryTaken
  => /\ Len(session.chat_history) >= main.history_before + 1
     /\ LET m == session.chat_history[main.history_before + 1]
        IN m.role = "user" /\ m.content = main.user_input
     /\ \A k \in main.history_before + 2 .. Len(session.chat_history) :
          session.chat_history[k].role # "user"
     /\ main.pc = "extract"
          => /\ main.extractions = 0 /\ main.inv_calls = 0 /\ aug.calls = 0
             /\ Len(session.chat_history) = main.history_before + 1
     /\ inv.error # None => main.pc = "psq_inventory" /\ inv.pc = "raised"
     /\ main.error # None
          => /\ main.pc = "idle"
             /\ Len(session.chat_history) = main.history_before + 1

\* the second query of a session failed in the Inventory Responder, after a
\* successful extraction; the history holds the user messages of both queries
C25_Witness ==
  /\ QueryTaken
  /\ main.queries = MaxQueries
  /\ main.completion = "parsed"
  /\ main.inv_calls = 1
  /\ main.pc = "idle"
  /\ main.error # None
  /\ main.error.at = "responses.create 1"
  /\ Len(session.chat_history) = 2
  /\ session.chat_history[2].content = main.user_input

\* the step of the Logout button for the logged-in user u
LogoutOf(u) == session.username = u /\ session'.username = EmptyStr

\* C26: the Logout of a logged-in user leaves the session without username
\* and with an empty chat history; when the chat history was not empty, the
\* conversation stored for that user is afterwards the history held just
\* before the logout, and when it was empty the stored files are as before.
C26_LogoutSavesThenClears ==
  [][\A u \in Users :
       LogoutOf(u) =>
         /\ session'.chat_history = << >>
         /\ IF session.chat_history # << >>
            THEN load_conversation(host'.files, u) = session.chat_history
            ELSE host'.files = host.files]_vars

---------------------------------------------------------------------------
(* Claims about the conversation storage (SpecStorage) *)

\* C27: for every non-empty username u whose latest save_conversation(u, h)
\* returned True, load_conversation(u) gives the messages of h (role,
\* content, timestamp) in the same order and u is among
\* get_available_users(); save_conversation with an empty username returns
\* False and stores nothing; load_conversation of a username without stored
\* conversation gives an empty history.
C27_StorageRoundTrip ==
  /\ [](\A u \in Users :
          /\ storage.saved[u] # None
               => /\ load_conversation(host.files, u) = storage.saved[u].chat_history
                  /\ u \in get_available_users(host.files)
          /\ FileName(u) \notin ListDir(host.files)
               => load_conversation(host.files, u) = << >>)
  /\ [][(/\ storage' # storage
          /\ storage'.last.op = "save_conversation"
          /\ storage'.last.username = EmptyStr)
         => ~storage'.last.ret /\ host' = host]_vars

============================================================================
